---- MODULE Spec2Model ----
(***************************************************************************)
(* Model of the Opus adapter of media-codec-opus: the decode engine        *)
(* (src/src/decoder.rs) and the encode engine (src/src/encoder.rs) around   *)
(* the native libopus handle.  One engine lives per behaviour: it is        *)
(* constructed, operated through send / receive / flush / set_option /      *)
(* configure, and dropped.  The native library is a black box: every        *)
(* status it can report is a nondeterministic choice.                       *)
(*                                                                          *)
(* Machine integers: an u32 that may exceed 2^31-1 is kept as two 16-bit    *)
(* limbs [hi, lo], so that wrap-around is computed and not assumed.         *)
(***************************************************************************)
EXTENDS Integers, Sequences, FiniteSets, TLC

VARIABLES engine, phase, handle, destroys, misuse,
          pending, produced, delivered, packet_loss, fec, native, last,
          options, buffer, optionCalls

vars == <<engine, phase, handle, destroys, misuse,
          pending, produced, delivered, packet_loss, fec, native, last,
          options, buffer, optionCalls>>

\* ------------------------------------------------------------------ bounds
\* Outputs one engine may enqueue over its life (caps the queue's growth).
MaxOutputs == 2
\* set_option and configure calls on one encoder over its life.
MaxOptionCalls == 1

\* ------------------------------------------------------------ option values
None == <<>>
Some(x) == <<x>>
IsSome(o) == Len(o) = 1
Get(o) == o[1]

Limb == 256 * 256

\* u32 as limbs
U32(hi, lo) == [hi |-> hi, lo |-> lo]

\* `x as u32` for an i32 x: two's complement, -1 becomes 2^32 - 1.
AsU32(x) ==
    IF x >= 0 THEN U32(x \div Limb, x % Limb)
    ELSE LET w == (x + 2147483647) + 1
         IN U32(32768 + (w \div Limb), w % Limb)

\* a * b in u32 for a < 2^16 and 0 <= b < 2^31: the wrapped product and
\* whether the exact product left the 32 bits.
MulU32(a, b) ==
    LET pl == a * (b % Limb)
        ph == a * (b \div Limb) + (pl \div Limb)
    IN [val |-> U32(ph % Limb, pl % Limb), overflow |-> ph >= Limb]

\* u / d (truncating) for an u32 u and 0 < d < 2^30; the quotient is a plain
\* integer.  A value of 2^31 or more is 2147483647 + 1 + w.
DivU32(u, d) ==
    IF u.hi < 32768 THEN ((u.hi * Limb) + u.lo) \div d
    ELSE LET w == ((u.hi - 32768) * Limb) + u.lo
         IN (2147483647 \div d) + (w \div d)
            + ((((2147483647 % d) + 1) + (w % d)) \div d)

\* --------------------------------------------------------------- the queue
\* A queue that hands out its newest element.
PopBack(q) == IF q = <<>> THEN None ELSE Some(q[Len(q)])

\* pop_front of a VecDeque
PopFront(q) == IF q = <<>> THEN None ELSE Some(Head(q))

IsPrefix(s, t) == Len(s) <= Len(t) /\ SubSeq(t, 1, Len(s)) = s

NextId == Len(produced) + 1

\* -------------------------------------------------------- decoder: inputs
OpusRates == {8000, 12000, 16000, 24000, 48000}

CodecIds == {"OPUS", "AAC"}
DecNewRates == {None, Some(48000), Some(44100)}
DecNewChannels == {None, Some(1), Some(3)}

\* Live configurations handed to send_packet: (sample rate, format, channels),
\* each of them optional.
Config(rate, format, layout) == [rate |-> rate, format |-> format, layout |-> layout]

DecConfigs ==
    {Config(None, Some("S16"), Some(2)),
     Config(Some(48000), None, Some(2)),
     Config(Some(48000), Some("F32"), None),
     Config(Some(48000), Some("F32"), Some(2)),
     Config(Some(8000), Some("U8"), Some(1)),
     Config(Some(8), Some("S16"), Some(1)),
     Config(Some(36000000), Some("S16"), Some(2))}

\* Variant values handed to set_option.
DecValues == {[t |-> "bool", b |-> FALSE], [t |-> "int", i |-> -1], [t |-> "str"]}

\* A conversion that reads every value without an i32 as 0.
ValueIntLenient(v) ==
    IF v.t = "bool" THEN Some(IF v.b THEN 1 ELSE 0)
    ELSE IF v.t = "int" THEN Some(v.i)
    ELSE Some(0)

\* Variant::get_int32 after the Bool arm: the i32 of the value, if it has one.
ValueInt(v) ==
    IF v.t = "bool" THEN Some(IF v.b THEN 1 ELSE 0)
    ELSE IF v.t = "int" THEN Some(v.i)
    ELSE None

DecKeys == {"gain", "packet_loss", "fec", "volume"}

\* ------------------------------------------------------------ native layer
\* opus_decoder_create / opus_encoder_create: NULL with a non-OK status for
\* an unsupported rate or channel count, or when allocation fails.
CreateStatuses(rate, channels) ==
    IF rate \in OpusRates /\ channels \in {1, 2}
    THEN {"OK", "ALLOC_FAIL"}
    ELSE {"BAD_ARG"}

\* A native call on the handle: a misuse unless the handle is open.
Misuse == misuse \/ handle # "open"

CtlStatuses == {"OK", "BAD_ARG"}

\* ------------------------------------------------- decoder: create_descriptor
\* The capacity the descriptor asks for: sample_rate * 120 / 1000, the
\* product taken in u32.  An overflowing product panics in a build with
\* overflow checks and wraps in one without.
DecMaxSamples(rate) ==
    LET p == MulU32(120, rate)
    IN [overflow |-> p.overflow, samples |-> DivU32(p.val, 1000)]

\* sample_format of the descriptor: F32 stays, anything else becomes S16.
DecSampleFormat(format) == IF format = "F32" THEN "F32" ELSE "S16"

\* A create_descriptor that refuses the formats the encoder refuses.
CreateDescriptorStrict(config, checks) ==
    IF ~IsSome(config.rate) \/ ~IsSome(config.format) \/ ~IsSome(config.layout)
    THEN [res |-> "InvalidParameter"]
    ELSE IF Get(config.format) \notin {"S16", "F32"} THEN [res |-> "Unsupported"]
    ELSE LET m == DecMaxSamples(Get(config.rate))
         IN IF m.overflow /\ checks THEN [res |-> "Panic"]
            ELSE IF m.samples = 0 THEN [res |-> "Invalid"]
            ELSE [res |-> "Ok", samples |-> m.samples,
                  format |-> DecSampleFormat(Get(config.format)),
                  sample_rate |-> Get(config.rate)]

\* create_descriptor(config): InvalidParameter for an absent field, else the
\* descriptor; try_from_channel_layout refuses a capacity of zero samples.
CreateDescriptor(config, checks) ==
    IF ~IsSome(config.rate) \/ ~IsSome(config.format) \/ ~IsSome(config.layout)
    THEN [res |-> "InvalidParameter"]
    ELSE LET m == DecMaxSamples(Get(config.rate))
         IN IF m.overflow /\ checks THEN [res |-> "Panic"]
            ELSE IF m.samples = 0 THEN [res |-> "Invalid"]
            ELSE [res |-> "Ok", samples |-> m.samples,
                  format |-> DecSampleFormat(Get(config.format)),
                  sample_rate |-> Get(config.rate)]

\* ------------------------------------------------------- decoder: decode
\* What one decode() can end in (get_frame, the buffer allocation, succeeds).
StageOutcomes == {"ok", "not_writable", "native_error", "truncate_error"}

\* The error a failed stage returns.
StageError(o) ==
    CASE o = "not_writable" -> "Invalid"
      [] o = "native_error" -> "Failed"
      [] o = "truncate_error" -> "FrameError"

\* The native decode entry point decode() calls, if it gets that far.
DecodeCalls(desc, isFec, o) ==
    IF o = "not_writable" THEN <<>>
    ELSE <<[fn |-> IF desc.format = "F32" THEN "opus_decode_float" ELSE "opus_decode",
            fec |-> isFec]>>

\* A recovery stage that runs whenever the loss flag is set, FEC or not.
RecoveryArmedByLoss(f, loss) == loss

\* let fec = self.fec && self.packet_loss
RecoveryArmed(f, loss) == f /\ loss

\* A send that decodes whatever packet it is given, empty ones too.
NormalDecodeAlways(empty) == TRUE

\* if !packet.data().is_empty()
NormalDecodeWanted(empty) == ~empty

\* A recovery stage that forgets to clear the flag.
LossKeptAfterRecovery == TRUE

\* The flag after a pushed recovery frame: self.packet_loss = false
LossAfterRecovery == FALSE

\* A send that takes its recovery frame back when the normal decode fails.
QueueRolledBack(q, f1) == q

\* The queue when the normal decode returns an error: what the recovery
\* stage pushed stays behind the older frames.
QueueAfterFailedNormal(q, f1) == q \o f1

\* send_packet after the descriptor: the recovery stage, then the normal one.
\* q: the queue, id0: the id the next frame gets.
DecSendStages(q, id0, f, loss, desc, empty, o1, o2) ==
    LET armed == RecoveryArmed(f, loss)
        c1 == IF armed THEN DecodeCalls(desc, TRUE, o1) ELSE <<>>
    IN IF armed /\ o1 # "ok"
       THEN [res |-> StageError(o1), pending |-> q, pushed |-> <<>>,
             packet_loss |-> loss, calls |-> c1, recovery |-> o1, normal |-> "skipped"]
       ELSE LET f1 == IF armed THEN <<[id |-> id0, kind |-> "recovery"]>> ELSE <<>>
                l1 == IF armed THEN LossAfterRecovery ELSE loss
                id1 == id0 + Len(f1)
                rec == IF armed THEN "ok" ELSE "skipped"
            IN IF ~NormalDecodeWanted(empty)
               THEN [res |-> "Ok", pending |-> q \o f1, pushed |-> f1,
                     packet_loss |-> l1, calls |-> c1, recovery |-> rec,
                     normal |-> "skipped"]
               ELSE IF o2 # "ok"
               THEN [res |-> StageError(o2), pending |-> QueueAfterFailedNormal(q, f1),
                     pushed |-> f1,
                     packet_loss |-> l1, calls |-> c1 \o DecodeCalls(desc, FALSE, o2),
                     recovery |-> rec, normal |-> o2]
               ELSE LET f2 == <<[id |-> id1, kind |-> "normal"]>>
                    IN [res |-> "Ok", pending |-> (q \o f1) \o f2, pushed |-> f1 \o f2,
                        packet_loss |-> l1,
                        calls |-> c1 \o DecodeCalls(desc, FALSE, o2),
                        recovery |-> rec, normal |-> "ok"]

\* A send_packet that empties the queue when the descriptor cannot be built.
DecSendPacketClearing(q, id0, f, loss, config, empty, o1, o2, checks) ==
    LET d == CreateDescriptor(config, checks)
    IN IF d.res # "Ok"
       THEN [res |-> d.res, pending |-> <<>>, pushed |-> <<>>, packet_loss |-> loss,
             calls |-> <<>>, desc |-> d, recovery |-> "skipped", normal |-> "skipped"]
       ELSE [desc |-> d] @@ DecSendStages(q, id0, f, loss, d, empty, o1, o2)

\* send_packet(config, pool, packet)
DecSendPacket(q, id0, f, loss, config, empty, o1, o2, checks) ==
    LET d == CreateDescriptor(config, checks)
    IN IF d.res # "Ok"
       THEN [res |-> d.res, pending |-> q, pushed |-> <<>>, packet_loss |-> loss,
             calls |-> <<>>, desc |-> d, recovery |-> "skipped", normal |-> "skipped"]
       ELSE [desc |-> d] @@ DecSendStages(q, id0, f, loss, d, empty, o1, o2)

\* ---------------------------------------------------- decoder: set_option
\* set_option(key, value): the value is read before the key is looked at.
DecSetOptionStep(loss, f, nat, key, value, status) ==
    LET v == ValueInt(value)
        same == [packet_loss |-> loss, fec |-> f, native |-> nat, calls |-> <<>>]
    IN IF ~IsSome(v) THEN [res |-> "InvalidParameter"] @@ same
       ELSE CASE key = "gain" ->
                 [res |-> IF status = "OK" THEN "Ok" ELSE "SetFailed",
                  native |-> IF status = "OK" THEN [nat EXCEPT !.gain = v] ELSE nat,
                  calls |-> <<[fn |-> "opus_decoder_ctl", req |-> "SET_GAIN", arg |-> Get(v)]>>]
                 @@ same
              [] key = "packet_loss" ->
                 [res |-> "Ok", packet_loss |-> (Get(v) # 0)] @@ same
              [] key = "fec" ->
                 [res |-> "Ok", fec |-> (Get(v) # 0)] @@ same
              [] OTHER -> [res |-> "Unsupported"] @@ same

\* A flush that also discards the queued frames and the loss flag.
DecFlushStepClearing(q, loss, f, nat) ==
    [res |-> "Ok", pending |-> <<>>, packet_loss |-> FALSE, fec |-> f,
     native |-> nat,
     calls |-> <<[fn |-> "opus_decoder_ctl", req |-> "RESET_STATE", arg |-> 0]>>]

\* flush: opus_decoder_ctl(OPUS_RESET_STATE), its status ignored.
DecFlushStep(q, loss, f, nat) ==
    [res |-> "Ok", pending |-> q, packet_loss |-> loss, fec |-> f,
     native |-> nat,
     calls |-> <<[fn |-> "opus_decoder_ctl", req |-> "RESET_STATE", arg |-> 0]>>]

\* A receive that returns the oldest output and discards the one behind it.
ReceiveStepSkipping(q) ==
    IF q = <<>> THEN [res |-> "Again", out |-> None, pending |-> q]
    ELSE [res |-> "Ok", out |-> Some(Head(q)),
          pending |-> IF Len(q) >= 2 THEN Tail(Tail(q)) ELSE <<>>]

\* receive_frame / receive_packet: pop_front or Again
ReceiveStep(q) ==
    LET r == PopFront(q)
    IN IF IsSome(r) THEN [res |-> "Ok", out |-> r, pending |-> Tail(q)]
       ELSE [res |-> "Again", out |-> None, pending |-> q]

\* Drop: the native destroy call on the handle the engine owns.
DropStep(h) == [handle |-> "destroyed", destroyed |-> 1, misuse |-> h # "open"]

\* ======================================================== encoder: options
\* Frame durations are counted in 1/64 ms (every value used is exact in f32,
\* and so are the products below): 2.5 ms = 160, 20 ms = 1280.
Ms(n) == 64 * n

\* (frame_duration * 48000f32 / 1000f32) as u32
FrameSize48(frame_duration) == (frame_duration * 750) \div 1000

\* u32 -> i32 (`as i32`), defined where the limbs hold a value below 2^31 or
\* the two's complement of a negative one.
AsI32(u) ==
    IF u.hi < 32768 THEN (u.hi * Limb) + u.lo
    ELSE ((((u.hi - 32768) * Limb) + u.lo) - 2147483647) - 1

U32IsZero(u) == u.hi = 0 /\ u.lo = 0
U32Is(u, n) == u = AsU32(n)

\* OpusOptions::default()
DefaultOptions ==
    [application |-> "AUDIO", frame_duration |-> Ms(20), frame_size |-> 960,
     packet_loss |-> 0, fec |-> FALSE, vbr |-> AsU32(1),
     max_bandwidth |-> AsU32(0), complexity |-> AsU32(10)]

\* OpusOptions::from_variant(variant): the variant's fields (absent ones
\* already replaced by their defaults) and the 48 kHz sample count.
FromVariant(variant) ==
    IF IsSome(variant)
    THEN LET v == Get(variant)
         IN [application |-> v.application, frame_duration |-> v.frame_duration,
             frame_size |-> FrameSize48(v.frame_duration),
             packet_loss |-> v.packet_loss, fec |-> v.fec, vbr |-> AsU32(v.vbr),
             max_bandwidth |-> AsU32(v.max_bandwidth),
             complexity |-> AsU32(v.complexity)]
    ELSE DefaultOptions

\* sample_format.bytes()
Bytes(format) == IF format = "F32" THEN 4 ELSE IF format = "S16" THEN 2 ELSE 1

SupportedFormat(format) == format \in {"S16", "F32"}

\* The match on the 48 kHz frame size in OpusEncoder::new.
LowDelaySizes == {120, 240}
PlainSizes == {480, 960, 1920, 2880, 3840, 4800, 5760}

\* ---------------------------------------------------- encoder: control calls
EncReqs == {"SET_BITRATE", "SET_VBR", "SET_VBR_CONSTRAINT", "SET_PACKET_LOSS_PERC",
            "SET_INBAND_FEC", "SET_COMPLEXITY", "SET_MAX_BANDWIDTH"}

Ctl(req, arg) == [fn |-> "opus_encoder_ctl", req |-> req, arg |-> arg]

BoolInt(b) == IF b THEN 1 ELSE 0

\* encoder_ctl over a run of calls of which the failAt-th (if any) reports a
\* non-OK status: the calls made, the settings the native encoder took.
RECURSIVE ApplyCtls(_, _, _)
ApplyCtls(set, calls, n) ==
    IF n = 0 \/ calls = <<>> THEN set
    ELSE ApplyCtls([set EXCEPT ![Head(calls).req] = Some(Head(calls).arg)],
                   Tail(calls), n - 1)

RunCtls(set, calls, failAt) ==
    LET failed == failAt \in 1..Len(calls)
    IN [ok |-> ~failed,
        made |-> IF failed THEN SubSeq(calls, 1, failAt) ELSE calls,
        set |-> ApplyCtls(set, calls, IF failed THEN failAt - 1 ELSE Len(calls))]

\* set_encoder_parameters: the bit-rate call, then the level as complexity.
ParamCalls(encp) ==
    IF IsSome(encp.bit_rate) THEN <<Ctl("SET_BITRATE", Get(encp.bit_rate))>> ELSE <<>>

LevelComplexity(level) == IF level < 0 \/ level > 10 THEN 10 ELSE level

OptionsWithLevel(o, encp) ==
    IF IsSome(encp.level)
    THEN [o EXCEPT !.complexity = AsU32(LevelComplexity(Get(encp.level)))]
    ELSE o

\* update_options: the calls it issues for the cached options.
UpdateCalls(o) ==
    <<Ctl("SET_VBR", BoolInt(~U32IsZero(o.vbr))),
      Ctl("SET_VBR_CONSTRAINT", BoolInt(U32Is(o.vbr, 2))),
      Ctl("SET_PACKET_LOSS_PERC", o.packet_loss),
      Ctl("SET_INBAND_FEC", BoolInt(o.fec))>>
    \o (IF ~U32IsZero(o.complexity)
        THEN <<Ctl("SET_COMPLEXITY", AsI32(o.complexity))>> ELSE <<>>)
    \o (IF ~U32IsZero(o.max_bandwidth)
        THEN <<Ctl("SET_MAX_BANDWIDTH", AsI32(o.max_bandwidth))>> ELSE <<>>)

\* set_encoder_parameters(encp)? then update_options()? on options o: the
\* failAt-th control call of the run fails (0: none does).
ParamsThenUpdate(o, set, encp, failAt) ==
    LET p == RunCtls(set, ParamCalls(encp), failAt)
    IN IF ~p.ok THEN [ok |-> FALSE, options |-> o, set |-> p.set, calls |-> p.made]
       ELSE LET o1 == OptionsWithLevel(o, encp)
                u == RunCtls(p.set, UpdateCalls(o1), IF failAt = 0 THEN 0
                                                     ELSE failAt - Len(p.made))
            IN [ok |-> u.ok, options |-> o1, set |-> u.set, calls |-> p.made \o u.made]

\* --------------------------------------------------------- encoder: new
\* opts.frame_size = frame_size * sample_rate as u32 / 48000
ScaledFrameSize(frame_size, rate) ==
    LET p == MulU32(frame_size, rate)
    IN [overflow |-> p.overflow, size |-> DivU32(p.val, 48000)]

\* A constructor that creates the encoder in the mode the caller asked for.
ApplicationAsRequested(frame_size, application) == application

\* The application mode the encoder is created with.
ApplicationFor(frame_size, application) ==
    IF frame_size \in LowDelaySizes THEN "LOWDELAY" ELSE application

\* Whether the 48 kHz frame size is one the match accepts.
FrameSizeLegal(frame_size) == frame_size \in LowDelaySizes \cup PlainSizes

\* vec![0u8; frame_size * channels * sample_format.bytes()]
ScratchLen(frame_size, channels, format) == (frame_size * channels) * Bytes(format)

NoEngine(res, created) ==
    [res |-> res, created |-> created, handle |-> "null", destroyed |-> 0,
     options |-> [kind |-> "none"], buffer |-> [len |-> 0, dirty |-> FALSE],
     native |-> [kind |-> "none"], calls |-> <<>>]

\* A constructor whose error return leaves the created handle open.
HandleLeakedAfterFailedSetup == [handle |-> "open", destroyed |-> 0]

\* What becomes of the handle when new() returns an error after the engine
\* value was built: the value is dropped, and Drop destroys the handle.
HandleAfterFailedSetup == [handle |-> "destroyed", destroyed |-> 1]

\* OpusEncoder::new(codec_id, parameters, options).  status: what the native
\* create reports; failAt: the control call that fails in the setup (0: none).
EncNewStep(codec, params, variant, status, failAt, checks) ==
    IF codec # "OPUS" THEN NoEngine("Unsupported", FALSE)
    ELSE LET opts == FromVariant(variant)
    IN IF ~IsSome(params.format) THEN NoEngine("InvalidParameter", FALSE)
       ELSE IF ~SupportedFormat(Get(params.format)) THEN NoEngine("Unsupported", FALSE)
       ELSE IF ~IsSome(params.rate) \/ ~IsSome(params.channels)
       THEN NoEngine("InvalidParameter", FALSE)
       ELSE LET frame_size == FrameSize48(opts.frame_duration)
                rate == Get(params.rate)
                channels == Get(params.channels)
       IN IF ~FrameSizeLegal(frame_size) THEN NoEngine("Invalid", FALSE)
          ELSE LET scaled == ScaledFrameSize(frame_size, rate)
          IN IF scaled.overflow /\ checks THEN NoEngine("Panic", FALSE)
             ELSE IF status # "OK" THEN NoEngine("CreationFailed", TRUE)
             ELSE LET o == [opts EXCEPT
                                !.application = ApplicationFor(frame_size, opts.application),
                                !.frame_size = scaled.size]
                      set0 == [r \in EncReqs |-> None]
                      r == ParamsThenUpdate(o, set0, params.encoder, failAt)
                      nat == [kind |-> "encoder", rate |-> rate, channels |-> channels,
                              application |-> o.application, set |-> r.set]
                      buf == [len |-> ScratchLen(frame_size, channels, Get(params.format)),
                              dirty |-> FALSE]
                  IN IF r.ok
                     THEN [res |-> "Ok", created |-> TRUE, handle |-> "open", destroyed |-> 0,
                           options |-> r.options, buffer |-> buf, native |-> nat,
                           calls |-> r.calls]
                     ELSE [res |-> "SetFailed", created |-> TRUE, options |-> r.options,
                           buffer |-> buf, native |-> nat, calls |-> r.calls]
                          @@ HandleAfterFailedSetup

\* ---------------------------------------------------- encoder: set_option
\* A set_option that restores the cached field when the control call fails.
CachedRolledBack(assigned, before, status) ==
    IF status = "OK" THEN assigned ELSE before

\* The cached options once the control call has returned: the field was
\* assigned before the call, and a failed call does not undo it.
CachedAfterCtl(assigned, before, status) == assigned

EncSetOptionStep(o, set, key, value, status) ==
    LET v == ValueInt(value)
        i == Get(v)
        ctl(req, o1) ==
            [res |-> IF status = "OK" THEN "Ok" ELSE "SetFailed",
             options |-> CachedAfterCtl(o1, o, status),
             set |-> IF status = "OK" THEN [set EXCEPT ![req] = v] ELSE set,
             calls |-> <<Ctl(req, i)>>]
    IN IF ~IsSome(v)
       THEN [res |-> "InvalidParameter", options |-> o, set |-> set, calls |-> <<>>]
       ELSE CASE key = "bit_rate" -> ctl("SET_BITRATE", o)
              [] key = "packet_loss_percent" ->
                 ctl("SET_PACKET_LOSS_PERC", [o EXCEPT !.packet_loss = i])
              [] key = "fec" -> ctl("SET_INBAND_FEC", [o EXCEPT !.fec = (i # 0)])
              [] key = "vbr" -> ctl("SET_VBR", [o EXCEPT !.vbr = AsU32(i)])
              [] key = "max_bandwidth" ->
                 ctl("SET_MAX_BANDWIDTH", [o EXCEPT !.max_bandwidth = AsU32(i)])
              [] key = "complexity" ->
                 ctl("SET_COMPLEXITY", [o EXCEPT !.complexity = AsU32(i)])
              [] OTHER -> [res |-> "Unsupported", options |-> o, set |-> set,
                           calls |-> <<>>]

\* ------------------------------------------------------ encoder: configure
\* configure(params, options): the failAt-th control call fails (0: none).
EncConfigureStep(o, set, params, variant, failAt) ==
    LET p == IF IsSome(params) THEN RunCtls(set, ParamCalls(Get(params)), failAt)
             ELSE [ok |-> TRUE, made |-> <<>>, set |-> set]
    IN IF ~p.ok
       THEN [res |-> "SetFailed", options |-> o, set |-> p.set, calls |-> p.made]
       ELSE LET o1 == IF IsSome(params) THEN OptionsWithLevel(o, Get(params)) ELSE o
            IN IF ~IsSome(variant)
               THEN [res |-> "Ok", options |-> o1, set |-> p.set, calls |-> p.made]
               ELSE LET o2 == FromVariant(variant)
                        u == RunCtls(p.set, UpdateCalls(o2),
                                     IF failAt = 0 THEN 0 ELSE failAt - Len(p.made))
                    IN [res |-> IF u.ok THEN "Ok" ELSE "SetFailed", options |-> o2,
                        set |-> u.set, calls |-> p.made \o u.made]

\* ---------------------------------------------------------- encoder: flush
\* flush: self.buffer.fill(0)
EncFlushStep(q, o, buf, set) ==
    [res |-> "Ok", pending |-> q, options |-> o, buffer |-> [buf EXCEPT !.dirty = FALSE],
     set |-> set, calls |-> <<>>]

\* --------------------------------------------------------- encoder: encode
CeilDiv(a, b) == (a + (b - 1)) \div b

\* A timing that takes the whole frame's sample count as every packet's
\* duration.
PacketTimingOfFrame(frame_size, frame) ==
    IF IsSome(frame.time_base)
    THEN LET tb == Get(frame.time_base)
         IN [duration |-> (frame.samples * tb[2]) \div (frame.rate * tb[1]),
             time_base |-> tb]
    ELSE [duration |-> frame.samples, time_base |-> <<1, frame.rate>>]

\* The packet's duration and time-base: frame_size samples in the frame's
\* time-base if it has one (the rational's integer part), else in 1/rate.
PacketTiming(frame_size, frame) ==
    IF IsSome(frame.time_base)
    THEN LET tb == Get(frame.time_base)
         IN [duration |-> (frame_size * tb[2]) \div (frame.rate * tb[1]),
             time_base |-> tb]
    ELSE [duration |-> frame_size, time_base |-> <<1, frame.rate>>]

\* The native encode entry point and the samples per channel it is handed.
EncodeCall(frame, dataLen, padded, stale) ==
    [fn |-> IF frame.format = "S16" THEN "opus_encode" ELSE "opus_encode_float",
     samples |-> (dataLen \div Bytes(frame.format)) \div frame.channels,
     padded |-> padded, stale |-> stale]

\* An encode whose failure takes back the packets it had pushed.
EncodeFailsRolledBack(res, st) ==
    [res |-> res] @@
    [st EXCEPT !.pending = SubSeq(@, 1, Len(@) - Len(st.pushed)), !.pushed = <<>>]

\* An error return out of the chunk loop: the packets pushed by the earlier
\* chunks stay in self.pending.
EncodeFails(res, st) == [res |-> res] @@ st

\* The chunk loop of encode() from chunk i on.  st: [pending, pushed, buffer,
\* calls, pts]; n: the frame's bytes; c: the chunk size; count: the chunks.
RECURSIVE EncodeChunks(_, _, _, _, _, _, _, _, _)
EncodeChunks(st, i, count, n, c, frame_size, frame, failAt, failKind) ==
    IF i > count THEN [res |-> "Ok"] @@ st
    ELSE IF failAt = i /\ failKind = "not_writable" THEN EncodeFails("Invalid", st)
    ELSE LET len == IF i < count THEN c ELSE n - ((count - 1) * c)
             padded == len < c
         IN IF padded /\ len > st.buffer.len THEN [res |-> "Panic"] @@ st
            ELSE LET buf == IF padded THEN [st.buffer EXCEPT !.dirty = TRUE] ELSE st.buffer
                     call == EncodeCall(frame, IF padded THEN buf.len ELSE len, padded,
                                        padded /\ st.buffer.dirty)
                     st1 == [st EXCEPT !.buffer = buf, !.calls = Append(@, call)]
                 IN IF failAt = i /\ failKind = "native_error"
                    THEN EncodeFails("Failed", st1)
                    ELSE LET t == PacketTiming(frame_size, frame)
                             id == st.id0 + Len(st.pushed)
                             packet == [id |-> id, pts |-> st.pts,
                                        duration |-> t.duration,
                                        time_base |-> t.time_base]
                             st2 == [st1 EXCEPT
                                       !.pending = Append(@, [id |-> id, kind |-> "packet"]),
                                       !.pushed = Append(@, packet),
                                       !.pts = @ + t.duration]
                         IN EncodeChunks(st2, i + 1, count, n, c, frame_size, frame,
                                         failAt, failKind)

\* An encode that starts every frame's packets at pts 0.
FirstPtsZero(frame) == 0

\* The pts of the first packet: frame.pts.unwrap_or(0)
FirstPts(frame) == IF IsSome(frame.pts) THEN Get(frame.pts) ELSE 0

\* encode(frame, pool).  readable: whether frame.map() succeeds; failAt and
\* failKind: the chunk at which a packet is not writable or the native call
\* errs (0: none).
EncodeStep(q, id0, o, buf, frame, readable, failAt, failKind) ==
    LET st0 == [pending |-> q, pushed |-> <<>>, buffer |-> buf, calls |-> <<>>,
                pts |-> FirstPts(frame), id0 |-> id0]
    IN IF ~SupportedFormat(frame.format) THEN [res |-> "Unsupported"] @@ st0
       ELSE IF ~readable THEN [res |-> "Invalid"] @@ st0
       ELSE LET sample_size == frame.channels * Bytes(frame.format)
                n == frame.samples * sample_size
                c == o.frame_size * sample_size
                st1 == [st0 EXCEPT !.buffer = [buf EXCEPT !.dirty = FALSE]]
            IN IF c = 0 THEN [res |-> "Panic"] @@ st1
               ELSE EncodeChunks(st1, 1, CeilDiv(n, c), n, c, o.frame_size, frame,
                                 failAt, failKind)

\* ------------------------------------------------------------------- Init
Init ==
    /\ engine = "none"
    /\ phase = "init"
    /\ handle = "null"
    /\ destroys = 0
    /\ misuse = FALSE
    /\ pending = <<>>
    /\ produced = <<>>
    /\ delivered = <<>>
    /\ packet_loss = FALSE
    /\ fec = FALSE
    /\ native = [kind |-> "none"]
    /\ last = [op |-> "init", res |-> "Ok", calls |-> <<>>]
    /\ options = [kind |-> "none"]
    /\ buffer = [len |-> 0, dirty |-> FALSE]
    /\ optionCalls = 0

\* ------------------------------------------------------- decoder: actions
\* OpusDecoder::new(codec_id, params, options)
DecNewStep(codec, rate, channels, status) ==
    IF codec # "OPUS" THEN [res |-> "Unsupported", handle |-> "null", created |-> FALSE]
    ELSE IF ~IsSome(rate) \/ ~IsSome(channels)
    THEN [res |-> "InvalidParameter", handle |-> "null", created |-> FALSE]
    ELSE IF status # "OK"
    THEN [res |-> "CreationFailed", handle |-> "null", created |-> TRUE]
    ELSE [res |-> "Ok", handle |-> "open", created |-> TRUE]

DecoderNew ==
    /\ phase = "init"
    /\ \E codec \in CodecIds, rate \in DecNewRates, channels \in DecNewChannels :
       \E status \in (IF IsSome(rate) /\ IsSome(channels)
                      THEN CreateStatuses(Get(rate), Get(channels)) ELSE {"OK"}) :
         \E r \in {DecNewStep(codec, rate, channels, status)} :
            /\ engine' = "decoder"
            /\ phase' = IF r.res = "Ok" THEN "live" ELSE "failed"
            /\ handle' = r.handle
            /\ native' = IF r.res = "Ok"
                         THEN [kind |-> "decoder", gain |-> None]
                         ELSE native
            /\ last' = [op |-> "new", res |-> r.res, calls |-> <<>>, created |-> r.created]
    /\ UNCHANGED <<destroys, misuse, pending, produced, delivered,
                   packet_loss, fec, options, buffer, optionCalls>>

\* The builds that differ on a configuration (those with and without overflow
\* checks, where the capacity product overflows), and whether some build gets
\* past the descriptor: elsewhere the choices below change nothing.
DecBuilds(config) ==
    IF IsSome(config.rate) /\ DecMaxSamples(Get(config.rate)).overflow
    THEN BOOLEAN ELSE {FALSE}

DecReachesDecode(config) == CreateDescriptor(config, FALSE).res = "Ok"

DecLive == engine = "decoder" /\ phase = "live"

DecoderSend ==
    /\ DecLive
    /\ \E config \in DecConfigs :
       \E overflow_checks \in DecBuilds(config),
          empty \in BOOLEAN :
       \E o1 \in (IF DecReachesDecode(config) /\ RecoveryArmed(fec, packet_loss)
                  THEN StageOutcomes ELSE {"ok"}),
          o2 \in (IF DecReachesDecode(config) /\ ~empty THEN StageOutcomes ELSE {"ok"}) :
         \E r \in {DecSendPacket(pending, NextId, fec, packet_loss, config, empty,
                                  o1, o2, overflow_checks)} :
            /\ Len(produced) + Len(r.pushed) <= MaxOutputs
            /\ pending' = r.pending
            /\ produced' = produced \o r.pushed
            /\ packet_loss' = r.packet_loss
            /\ phase' = IF r.res = "Panic" THEN "panicked" ELSE phase
            /\ misuse' = IF r.calls # <<>> THEN Misuse ELSE misuse
            /\ last' = [op |-> "send", res |-> r.res, calls |-> r.calls,
                        empty |-> empty, config |-> config,
                        cap |-> IF r.desc.res = "Ok"
                                THEN Some(<<r.desc.sample_rate, r.desc.samples>>)
                                ELSE None,
                        pushed |-> r.pushed, recovery |-> r.recovery,
                        normal |-> r.normal]
    /\ UNCHANGED <<engine, handle, destroys, delivered, fec, native,
                   options, buffer, optionCalls>>

DecoderReceive ==
    /\ DecLive
    /\ \E r \in {ReceiveStep(pending)} :
          /\ pending' = r.pending
          /\ delivered' = delivered \o r.out
          /\ last' = [op |-> "receive", res |-> r.res, calls |-> <<>>, out |-> r.out]
    /\ UNCHANGED <<engine, phase, handle, destroys, misuse, produced,
                   packet_loss, fec, native, options, buffer, optionCalls>>

\* receive_frame_borrowed: never offered
DecoderReceiveBorrowed ==
    /\ DecLive
    /\ last' = [op |-> "receive_borrowed", res |-> "Unsupported", calls |-> <<>>]
    /\ UNCHANGED <<engine, phase, handle, destroys, misuse, pending,
                   produced, delivered, packet_loss, fec, native, options, buffer, optionCalls>>

DecoderFlush ==
    /\ DecLive
    /\ \E r \in {DecFlushStep(pending, packet_loss, fec, native)} :
          /\ pending' = r.pending
          /\ packet_loss' = r.packet_loss
          /\ fec' = r.fec
          /\ native' = r.native
          /\ misuse' = Misuse
          /\ last' = [op |-> "flush", res |-> r.res, calls |-> r.calls]
    /\ UNCHANGED <<engine, phase, handle, destroys, produced, delivered,
                   options, buffer, optionCalls>>

DecoderSetOption ==
    /\ DecLive
    /\ \E key \in DecKeys, value \in DecValues :
       \E status \in (IF key = "gain" /\ IsSome(ValueInt(value)) THEN CtlStatuses ELSE {"OK"}) :
         \E r \in {DecSetOptionStep(packet_loss, fec, native, key, value, status)} :
            /\ packet_loss' = r.packet_loss
            /\ fec' = r.fec
            /\ native' = r.native
            /\ misuse' = IF r.calls # <<>> THEN Misuse ELSE misuse
            /\ last' = [op |-> "set_option", res |-> r.res, calls |-> r.calls,
                        key |-> key, value |-> value,
                        status |-> IF r.calls # <<>> THEN Some(status) ELSE None]
    /\ UNCHANGED <<engine, phase, handle, destroys, pending, produced,
                   delivered, options, buffer, optionCalls>>

\* configure(params, options) of the decoder does nothing.
DecoderConfigure ==
    /\ DecLive
    /\ last' = [op |-> "configure", res |-> "Ok", calls |-> <<>>]
    /\ UNCHANGED <<engine, phase, handle, destroys, misuse, pending,
                   produced, delivered, packet_loss, fec, native, options, buffer, optionCalls>>

\* The owner lets go of the engine (also while a panic unwinds).
Drop ==
    /\ phase \in {"live", "panicked"}
    /\ \E r \in {DropStep(handle)} :
          /\ handle' = r.handle
          /\ destroys' = destroys + r.destroyed
          /\ misuse' = (misuse \/ r.misuse)
    /\ phase' = "dropped"
    /\ last' = [op |-> "drop", res |-> "Ok", calls |-> <<>>]
    /\ UNCHANGED <<engine, pending, produced, delivered, packet_loss,
                   fec, native, options, buffer, optionCalls>>

\* ------------------------------------------------------- encoder: inputs
EncParams(format, rate, channels, bit_rate, level) ==
    [format |-> format, rate |-> rate, channels |-> channels,
     encoder |-> [bit_rate |-> bit_rate, level |-> level]]

\* Options variants (absent fields already at their defaults).
LowDelayVariant ==
    [application |-> "VOIP", frame_duration |-> Ms(5) \div 2, packet_loss |-> 5,
     fec |-> TRUE, vbr |-> 2, max_bandwidth |-> 1105, complexity |-> 0]
DurationVariant(d) ==
    [application |-> "AUDIO", frame_duration |-> d, packet_loss |-> 0,
     fec |-> FALSE, vbr |-> 1, max_bandwidth |-> 0, complexity |-> 10]

PlainParams == EncParams(Some("S16"), Some(48000), Some(1), None, None)

\* (codec id, parameters, options) handed to OpusEncoder::new
EncNewInputs ==
    {<<"OPUS", PlainParams, None>>,
     <<"OPUS", EncParams(Some("F32"), Some(8000), Some(2), Some(64000), None),
       Some(LowDelayVariant)>>,
     <<"OPUS", PlainParams, Some(DurationVariant(Ms(15)))>>,
     <<"OPUS", PlainParams,
       Some([DurationVariant(Ms(40)) EXCEPT !.application = "VOIP"])>>,
     <<"OPUS", EncParams(Some("S16"), Some(16000), Some(1), None, None),
       Some(DurationVariant(Ms(5)))>>,
     <<"OPUS", PlainParams, Some(DurationVariant(Ms(20) + 1))>>,
     <<"AAC", PlainParams, None>>,
     <<"OPUS", EncParams(None, Some(48000), Some(1), None, None), None>>,
     <<"OPUS", EncParams(Some("U8"), Some(48000), Some(1), None, None), None>>,
     <<"OPUS", EncParams(Some("S16"), None, Some(1), None, None), None>>,
     <<"OPUS", EncParams(Some("S16"), Some(44100), Some(1), None, Some(11)), None>>,
     <<"OPUS", EncParams(Some("S16"), Some(1000000), Some(1), None, None),
       Some(DurationVariant(Ms(120)))>>}

\* (key, value) pairs handed to the encoder's set_option
IntValue(i) == [t |-> "int", i |-> i]
EncOptionInputs ==
    {<<"bit_rate", IntValue(2)>>, <<"packet_loss_percent", IntValue(2)>>,
     <<"fec", [t |-> "bool", b |-> TRUE]>>, <<"vbr", IntValue(2)>>,
     <<"vbr", IntValue(-1)>>, <<"max_bandwidth", IntValue(2)>>,
     <<"complexity", IntValue(2)>>, <<"frame_duration", IntValue(2)>>,
     <<"frame_duration", [t |-> "str"]>>}

\* (params, options) handed to the encoder's configure
EncConfigureInputs ==
    {<<None, None>>,
     <<Some([bit_rate |-> Some(64000), level |-> Some(3)]), None>>,
     <<Some([bit_rate |-> None, level |-> Some(11)]), Some(DurationVariant(Ms(10)))>>}

\* Frames handed to send_frame by an encoder whose frame size is F.
Frame(format, channels, rate, samples, pts, time_base) ==
    [format |-> format, channels |-> channels, rate |-> rate, samples |-> samples,
     pts |-> pts, time_base |-> time_base]

FrameSamples(F) == {n \in {F, F + 1, (2 * F) + 1} : n > 0}

EncFrames(F) ==
    {Frame("S16", 1, 48000, n, Some(7), None) : n \in FrameSamples(F)}
    \cup {Frame("S16", 1, 48000, F + 1, None, None)}
    \cup {Frame("F32", 2, 8000, n, Some(7), Some(<<1, 1000>>)) :
            n \in FrameSamples(F) \ {F}}
    \cup {Frame("U8", 1, 48000, F + 1, None, None)}

\* How an encode() can end for a frame: <<0, "ok">>, the frame not readable,
\* or chunk k failing with a packet that is not writable or a native error.
EncOutcomes(frame, F) ==
    IF ~SupportedFormat(frame.format) THEN {<<0, "ok">>}
    ELSE {<<0, "ok">>, <<0, "not_readable">>}
         \cup (IF F = 0 THEN {}
               ELSE (1..CeilDiv(frame.samples, F)) \X {"not_writable", "native_error"})

\* The control call of a run that fails (0: none).
FailPoints == {0, 1, 2}

\* ------------------------------------------------------- encoder: actions
EncoderNew ==
    /\ phase = "init"
    /\ \E in \in EncNewInputs, overflow_checks \in BOOLEAN, failAt \in FailPoints :
       \E status \in (IF IsSome(in[2].rate) /\ IsSome(in[2].channels)
                      THEN CreateStatuses(Get(in[2].rate), Get(in[2].channels))
                      ELSE {"OK"}) :
       \E r \in {EncNewStep(in[1], in[2], in[3], status, failAt, overflow_checks)} :
            /\ engine' = "encoder"
            /\ phase' = IF r.res = "Ok" THEN "live" ELSE "failed"
            /\ handle' = r.handle
            /\ destroys' = destroys + r.destroyed
            /\ options' = r.options
            /\ buffer' = r.buffer
            /\ native' = r.native
            /\ last' = [op |-> "new", res |-> r.res, calls |-> r.calls,
                        created |-> r.created,
                        frame_duration |-> FromVariant(in[3]).frame_duration,
                        format |-> in[2].format,
                        application |-> FromVariant(in[3]).application]
    /\ UNCHANGED <<misuse, pending, produced, delivered, packet_loss, fec, optionCalls>>

EncLive == engine = "encoder" /\ phase = "live"

EncoderSend ==
    /\ EncLive
    /\ \E frame \in EncFrames(options.frame_size) :
       \E out \in EncOutcomes(frame, options.frame_size) :
       \E r \in {EncodeStep(pending, NextId, options, buffer, frame,
                            out[2] # "not_readable", out[1], out[2])} :
            /\ Len(produced) + Len(r.pushed) <= MaxOutputs
            /\ pending' = r.pending
            /\ produced' = produced \o [k \in 1..Len(r.pushed) |->
                                          [id |-> r.pushed[k].id, kind |-> "packet"]]
            /\ buffer' = r.buffer
            /\ phase' = IF r.res = "Panic" THEN "panicked" ELSE phase
            /\ misuse' = IF r.calls # <<>> THEN Misuse ELSE misuse
            /\ last' = [op |-> "send", res |-> r.res, calls |-> r.calls,
                        frame |-> frame, pushed |-> r.pushed]
    /\ UNCHANGED <<engine, handle, destroys, delivered, packet_loss, fec, native,
                   options, optionCalls>>

EncoderReceive ==
    /\ EncLive
    /\ \E r \in {ReceiveStep(pending)} :
          /\ pending' = r.pending
          /\ delivered' = delivered \o r.out
          /\ last' = [op |-> "receive", res |-> r.res, calls |-> <<>>, out |-> r.out]
    /\ UNCHANGED <<engine, phase, handle, destroys, misuse, produced,
                   packet_loss, fec, native, options, buffer, optionCalls>>

EncoderFlush ==
    /\ EncLive
    /\ \E r \in {EncFlushStep(pending, options, buffer, native.set)} :
          /\ pending' = r.pending
          /\ options' = r.options
          /\ buffer' = r.buffer
          /\ native' = [native EXCEPT !.set = r.set]
          /\ misuse' = IF r.calls # <<>> THEN Misuse ELSE misuse
          /\ last' = [op |-> "flush", res |-> r.res, calls |-> r.calls]
    /\ UNCHANGED <<engine, phase, handle, destroys, produced, delivered,
                   packet_loss, fec, optionCalls>>

EncoderSetOption ==
    /\ EncLive
    /\ optionCalls < MaxOptionCalls
    /\ \E in \in EncOptionInputs :
       \E status \in (IF in[1] # "frame_duration" /\ IsSome(ValueInt(in[2]))
                      THEN CtlStatuses ELSE {"OK"}) :
       \E r \in {EncSetOptionStep(options, native.set, in[1], in[2], status)} :
            /\ options' = r.options
            /\ native' = [native EXCEPT !.set = r.set]
            /\ misuse' = IF r.calls # <<>> THEN Misuse ELSE misuse
            /\ last' = [op |-> "set_option", res |-> r.res, calls |-> r.calls,
                        key |-> in[1], value |-> in[2],
                        status |-> IF r.calls # <<>> THEN Some(status) ELSE None]
    /\ optionCalls' = optionCalls + 1
    /\ UNCHANGED <<engine, phase, handle, destroys, pending, produced,
                   delivered, packet_loss, fec, buffer>>

EncoderConfigure ==
    /\ EncLive
    /\ optionCalls < MaxOptionCalls
    /\ \E in \in EncConfigureInputs, failAt \in FailPoints :
       \E r \in {EncConfigureStep(options, native.set, in[1], in[2], failAt)} :
            /\ options' = r.options
            /\ native' = [native EXCEPT !.set = r.set]
            /\ misuse' = IF r.calls # <<>> THEN Misuse ELSE misuse
            /\ last' = [op |-> "configure", res |-> r.res, calls |-> r.calls]
    /\ optionCalls' = optionCalls + 1
    /\ UNCHANGED <<engine, phase, handle, destroys, pending, produced,
                   delivered, packet_loss, fec, buffer>>

Next ==
    \/ DecoderNew
    \/ DecoderSend
    \/ DecoderReceive
    \/ DecoderReceiveBorrowed
    \/ DecoderFlush
    \/ DecoderSetOption
    \/ DecoderConfigure
    \/ EncoderNew
    \/ EncoderSend
    \/ EncoderReceive
    \/ EncoderFlush
    \/ EncoderSetOption
    \/ EncoderConfigure
    \/ Drop

Spec == Init /\ [][Next]_vars

\* =================================================================== claims
\* The step just taken is a call of op (every action records its call).
Called(op) == last'.op = op /\ vars' # vars

Ids(q) == [k \in 1..Len(q) |-> q[k].id]

\* ---------------------------------------------------------------------- C1
\* C1: on both engines receive returns Again exactly when the queue is
\* empty, and otherwise removes and returns the oldest queued output; the
\* outputs are delivered in the order they were enqueued, none of them twice:
\* what was enqueued is always what was delivered followed by what is queued.
C1_ReceiveIsFifo ==
    /\ produced = delivered \o pending
    /\ \A k \in 1..Len(produced) : produced[k].id = k
    /\ last.op = "receive" =>
          /\ last.res \in {"Ok", "Again"}
          /\ last.res = "Again" => (pending = <<>> /\ last.out = None)
          /\ last.res = "Ok" =>
                (delivered # <<>> /\ last.out = Some(delivered[Len(delivered)]))

\* A second output is received, in order, while the engine is a decoder.
C1_Witness ==
    /\ engine = "decoder"
    /\ last.op = "receive" /\ last.res = "Ok"
    /\ Len(delivered) = 2 /\ delivered[1].kind = "recovery"

\* ---------------------------------------------------------------------- C2
\* C2 as stated: a decoder send made with FEC enabled and the loss flag set
\* enqueues exactly one recovery frame ahead of the call's normal frame and
\* leaves the loss flag false.
C2_AsStated ==
    [][(DecLive /\ fec /\ packet_loss /\ Called("send")) =>
          /\ Len(last'.pushed) = 2
          /\ last'.pushed[1].kind = "recovery"
          /\ last'.pushed[2].kind = "normal"
          /\ pending' = pending \o last'.pushed
          /\ ~packet_loss']_vars

\* C2: a decoder send made with FEC enabled and the loss flag set, whose
\* recovery decode succeeds, enqueues exactly one recovery frame, ahead of
\* the normal frame of the same call (enqueued only when the packet is not
\* empty and its decode succeeds), and leaves the loss flag false.
C2_RecoveryFirst ==
    [][(DecLive /\ fec /\ packet_loss /\ Called("send") /\ last'.recovery = "ok") =>
          /\ Len(last'.pushed) = (IF last'.normal = "ok" THEN 2 ELSE 1)
          /\ last'.pushed[1].kind = "recovery"
          /\ \A k \in 2..Len(last'.pushed) : last'.pushed[k].kind = "normal"
          /\ last'.normal = "ok" <=> (~last'.empty /\ last'.res = "Ok")
          /\ pending' = pending \o last'.pushed
          /\ ~packet_loss']_vars

\* A send has pushed a recovery frame and then a normal frame.
C2_Witness ==
    /\ engine = "decoder" /\ last.op = "send" /\ fec
    /\ last.recovery = "ok" /\ last.normal = "ok"
    /\ Len(last.pushed) = 2 /\ ~packet_loss

\* ---------------------------------------------------------------------- C3
\* C3: a successful encoder send of a frame of N samples without a
\* time-base, with pts p (0 when absent) and frame size F, enqueues exactly
\* ceil(N / F) packets, the i-th (from 0) with duration F, time-base
\* 1 / sample rate and pts p + i * F.
C3_PacketsOfFrame ==
    (engine = "encoder" /\ last.op = "send" /\ last.res = "Ok"
        /\ ~IsSome(last.frame.time_base)) =>
       LET N == last.frame.samples
           F == options.frame_size
           p == IF last.frame.pts = None THEN 0 ELSE last.frame.pts[1]
           n == Len(last.pushed)
       IN /\ (n - 1) * F < N /\ N <= n * F
          /\ \A k \in 1..n :
                /\ last.pushed[k].duration = F
                /\ last.pushed[k].time_base = <<1, last.frame.rate>>
                /\ last.pushed[k].pts = p + (k - 1) * F
          /\ n <= Len(pending)
          /\ Ids(SubSeq(pending, Len(pending) - n + 1, Len(pending))) = Ids(last.pushed)

\* A frame with a pts and one sample more than a chunk has made two packets.
C3_Witness ==
    /\ engine = "encoder" /\ last.op = "send" /\ last.res = "Ok"
    /\ ~IsSome(last.frame.time_base) /\ IsSome(last.frame.pts)
    /\ last.frame.samples = options.frame_size + 1
    /\ Len(last.pushed) = 2

\* ---------------------------------------------------------------------- C4
\* The keys set_option knows on the engine at hand.
KnownKeys ==
    IF engine = "decoder" THEN {"gain", "packet_loss", "fec"}
    ELSE {"bit_rate", "packet_loss_percent", "fec", "vbr", "max_bandwidth",
          "complexity"}

\* set_option was called with a key the engine does not know.
UnknownKeyCalled == Called("set_option") /\ last'.key \notin KnownKeys

\* The options in memory, the queue and the native library's state are as
\* they were.
OptionStateKept ==
    UNCHANGED <<packet_loss, fec, options, buffer, pending, produced, delivered,
                native, handle, destroys>>

\* C4 as stated: set_option with an unrecognized key returns Unsupported on
\* both engines for every value passed with it, and changes neither the
\* options in memory, nor the queue, nor the native state.
C4_AsStated ==
    [][UnknownKeyCalled =>
          (last'.res = "Unsupported" /\ last'.calls = <<>> /\ OptionStateKept)]_vars

\* C4: set_option with an unrecognized key returns Unsupported on both
\* engines for every boolean or 32-bit integer value passed with it, and
\* InvalidParameter for any other value (the value is converted before the
\* key is looked at); either way it makes no native call and changes
\* neither the options in memory, nor the queue, nor the native state.
C4_UnknownKey ==
    [][UnknownKeyCalled =>
          /\ last'.res = (IF last'.value.t \in {"bool", "int"}
                          THEN "Unsupported" ELSE "InvalidParameter")
          /\ last'.calls = <<>>
          /\ OptionStateKept]_vars

\* An encoder has refused an unknown key that came with an integer.
C4_Witness ==
    /\ engine = "encoder" /\ last.op = "set_option"
    /\ last.key = "frame_duration" /\ last.value.t = "int"
    /\ last.res = "Unsupported"

\* ---------------------------------------------------------------------- C5
\* The nine frame durations Opus allows, in units of 1/64 ms.
LegalDurations == {(size * 64) \div 48 : size \in LowDelaySizes \cup PlainSizes}

\* C5: constructing an encoder with a frame duration that is not one of the
\* nine legal values fails with Invalid before the native create call, so
\* that no handle exists afterwards.
C5_IllegalDurationRefused ==
    (engine = "encoder" /\ last.op = "new"
        /\ last.frame_duration \notin LegalDurations) =>
       (last.res = "Invalid" /\ ~last.created /\ handle = "null"
           /\ phase = "failed")

\* ---------------------------------------------------------------------- C6
\* floor(rate * 120 / 1000) in unbounded arithmetic (120 / 1000 = 3 / 25).
ExactCapacity(rate) == 3 * (rate \div 25) + (3 * (rate % 25)) \div 25

\* C6: for every positive sample rate the capacity of the decoder's output
\* descriptor is exactly floor(sample_rate * 120 / 1000).
C6_CapacityExact ==
    (engine = "decoder" /\ last.op = "send" /\ IsSome(last.cap)) =>
       Get(last.cap)[2] = ExactCapacity(Get(last.cap)[1])

\* ---------------------------------------------------------------------- C7
\* The results a call reports when it fails (a panic included).
Failures ==
    {"Again", "Unsupported", "Invalid", "InvalidParameter", "Failed",
     "FrameError", "SetFailed", "CreationFailed", "Panic"}

\* C7: on both engines a failing call (send, receive, set_option, flush,
\* configure) never removes, reorders or alters the outputs queued before
\* it: the queue before the call is a prefix of the queue after it.
C7_FailureKeepsQueue ==
    [][(vars' # vars /\ last'.res \in Failures) => IsPrefix(pending, pending')]_vars

\* A send has failed after pushing one output behind an older one.
C7_Witness ==
    /\ last.op = "send" /\ last.res \in {"Failed", "FrameError", "Invalid"}
    /\ Len(pending) = 2 /\ Len(last.pushed) = 1

\* ---------------------------------------------------------------------- C8
\* C8: flush succeeds and leaves the queue unchanged on both engines; on the
\* decoder it only issues the native state reset and keeps the loss and FEC
\* flags, on the encoder it only zeroes the scratch buffer and touches
\* neither the options nor the native encoder.
C8_FlushKeepsState ==
    [][Called("flush") =>
          /\ last'.res = "Ok"
          /\ UNCHANGED <<pending, produced, delivered, packet_loss, fec, options,
                         native, handle, destroys, phase>>
          /\ engine = "decoder" =>
                /\ Len(last'.calls) = 1
                /\ last'.calls[1].fn = "opus_decoder_ctl"
                /\ last'.calls[1].req = "RESET_STATE"
                /\ buffer' = buffer
          /\ engine = "encoder" =>
                /\ last'.calls = <<>>
                /\ buffer' = [len |-> buffer.len, dirty |-> FALSE]]_vars

\* A decoder with a queued frame and the loss flag set has been flushed.
C8_Witness ==
    /\ engine = "decoder" /\ last.op = "flush"
    /\ pending # <<>> /\ packet_loss

\* ---------------------------------------------------------------------- C9
\* C9: every handle the native create call returned is released by exactly
\* one destroy call on every exit path (drop, drop while a panic unwinds,
\* constructor failure after creation); no handle is released twice or used
\* after its release.
C9_HandleReleasedOnce ==
    /\ destroys <= 1
    /\ ~misuse
    /\ handle = "open" => (destroys = 0 /\ phase \in {"live", "panicked"})
    /\ handle = "null" => (destroys = 0 /\ phase \in {"init", "failed"})
    /\ handle = "destroyed" => destroys = 1
    /\ phase \in {"failed", "dropped"} => handle # "open"
    /\ phase \in {"live", "panicked"} => handle = "open"

\* The encoder's constructor failed in its setup, after the create call.
C9_Witness ==
    /\ engine = "encoder" /\ phase = "failed"
    /\ last.op = "new" /\ last.res = "SetFailed" /\ last.created
    /\ handle = "destroyed" /\ destroys = 1

\* --------------------------------------------------------------------- C10
\* The i32 a boolean or integer value stands for.
AsInt(value) == IF value.t = "bool" THEN (IF value.b THEN 1 ELSE 0) ELSE value.i

\* The cached field of the encoder's key holds the value i.
FieldHolds(o, key, i) ==
    CASE key = "packet_loss_percent" -> o.packet_loss = i
      [] key = "fec" -> o.fec = (i # 0)
      [] key = "vbr" -> o.vbr = AsU32(i)
      [] key = "max_bandwidth" -> o.max_bandwidth = AsU32(i)
      [] key = "complexity" -> o.complexity = AsU32(i)
      [] OTHER -> TRUE

\* C10: when set_option is called with a key that maps to a native control
\* and the control call reports a non-OK status, the call fails with
\* SetFailed, the cached field of that key holds the new value, and the
\* queue is unchanged.
C10_FailedCtlKeepsValue ==
    [][(Called("set_option") /\ IsSome(last'.status) /\ Get(last'.status) # "OK") =>
          /\ last'.res = "SetFailed"
          /\ pending' = pending
          /\ engine = "encoder" =>
                FieldHolds(options', last'.key, AsInt(last'.value))
          /\ engine = "decoder" => UNCHANGED <<packet_loss, fec>>]_vars

\* The native library refused a vbr value, and the cache holds it.
C10_Witness ==
    /\ engine = "encoder" /\ last.op = "set_option" /\ last.res = "SetFailed"
    /\ last.key = "vbr" /\ options.vbr = AsU32(2)
    /\ options.vbr # DefaultOptions.vbr

\* --------------------------------------------------------------------- C11
\* A decoder send of an empty packet was made while recovery was not armed.
EmptyUnarmedSend ==
    DecLive /\ ~(fec /\ packet_loss) /\ Called("send") /\ last'.empty

\* C11 as stated: a decoder send of an empty packet while recovery is not
\* armed succeeds, makes no native decode call, enqueues no frame and leaves
\* the loss and FEC flags unchanged.
C11_AsStated ==
    [][EmptyUnarmedSend =>
          /\ last'.res = "Ok"
          /\ last'.calls = <<>> /\ last'.pushed = <<>>
          /\ UNCHANGED <<pending, produced, packet_loss, fec>>]_vars

\* C11: a decoder send of an empty packet while recovery is not armed
\* succeeds when the output descriptor can be built from the configuration,
\* and fails with the descriptor's error otherwise; either way it makes no
\* native decode call, enqueues no frame and leaves the loss and FEC flags
\* unchanged (an empty packet alone never sets the loss flag and never
\* triggers a recovery decode).
C11_EmptyPacketIsQuiet ==
    [][EmptyUnarmedSend =>
          /\ last'.res = "Ok" <=> IsSome(last'.cap)
          /\ last'.recovery = "skipped" /\ last'.normal = "skipped"
          /\ last'.calls = <<>> /\ last'.pushed = <<>>
          /\ UNCHANGED <<pending, produced, packet_loss, fec>>]_vars

\* An empty packet was sent with the loss flag set and FEC off: it
\* succeeded, and nothing was decoded or queued.
C11_Witness ==
    /\ engine = "decoder" /\ last.op = "send" /\ last.empty
    /\ last.res = "Ok" /\ packet_loss /\ ~fec
    /\ last.calls = <<>> /\ pending = <<>>

\* --------------------------------------------------------------------- C12
\* C12: in a decoder send with FEC enabled and the loss flag set, when the
\* recovery decode succeeds and the normal decode that follows fails, the
\* call fails with the normal decode's error, the recovery frame is the
\* newest entry of the queue, the loss flag is false, and no frame of the
\* normal decode is enqueued.
C12_RecoveryKeptOnFailure ==
    (engine = "decoder" /\ last.op = "send" /\ last.recovery = "ok"
        /\ last.normal \notin {"ok", "skipped"}) =>
       /\ last.res = (CASE last.normal = "not_writable" -> "Invalid"
                        [] last.normal = "native_error" -> "Failed"
                        [] last.normal = "truncate_error" -> "FrameError")
       /\ Len(last.pushed) = 1 /\ last.pushed[1].kind = "recovery"
       /\ pending # <<>> /\ pending[Len(pending)] = last.pushed[1]
       /\ produced[Len(produced)] = last.pushed[1]
       /\ \A k \in 1..Len(pending) :
             pending[k].kind = "normal" => pending[k].id < last.pushed[1].id
       /\ fec /\ ~packet_loss

\* The native decoder refused the packet after its recovery frame was made.
C12_Witness ==
    /\ engine = "decoder" /\ last.op = "send" /\ last.res = "Failed"
    /\ last.recovery = "ok" /\ last.normal = "native_error"
    /\ Len(last.calls) = 2
    /\ pending = last.pushed /\ ~packet_loss

\* --------------------------------------------------------------------- C13
\* The native encoder's setting req was last set to v, if a control call has
\* set it at all.
AppliedIs(req, v) == native.set[req] = None \/ native.set[req] = Some(v)

\* Every cached option is what the native encoder was last given for it.
CachedIsApplied ==
    /\ AppliedIs("SET_PACKET_LOSS_PERC", options.packet_loss)
    /\ AppliedIs("SET_INBAND_FEC", BoolInt(options.fec))
    /\ native.set["SET_VBR"] # None =>
          ((Get(native.set["SET_VBR"]) # 0) <=> ~U32IsZero(options.vbr))
    /\ AppliedIs("SET_MAX_BANDWIDTH", AsI32(options.max_bandwidth))
    /\ AppliedIs("SET_COMPLEXITY", AsI32(options.complexity))

\* C13: after construction, and after a successful configure or set_option
\* call that follows it, every cached encoder option (packet-loss
\* percentage, FEC toggle, VBR on or off, maximum bandwidth, complexity)
\* equals the value last applied to the native encoder by a control call.
C13_CachedMatchesNative ==
    (engine = "encoder" /\ phase = "live" /\ last.res = "Ok"
        /\ \/ last.op = "new"
           \/ (last.op \in {"configure", "set_option"} /\ optionCalls = 1)) =>
       CachedIsApplied

\* --------------------------------------------------------------------- C14
\* C14: in every state of a constructed encoder the configured frame
\* duration is one of the nine legal values, and the cached frame size is
\* the 48 kHz sample count of that duration scaled to the encoder's sample
\* rate (count * sample_rate / 48000) and is greater than zero.
C14_FrameSizeOfDuration ==
    (engine = "encoder" /\ phase = "live") =>
       /\ options.frame_duration \in LegalDurations
       /\ options.frame_size > 0
       /\ options.frame_size =
             (((options.frame_duration * 48) \div 64) * native.rate) \div 48000

\* --------------------------------------------------------------------- C15
\* C15: in every state of a constructed encoder the scratch buffer is
\* exactly one chunk long: cached frame_size * channel count * bytes per
\* sample of the format the encoder was constructed with.
C15_ScratchIsOneChunk ==
    (engine = "encoder" /\ phase = "live") =>
       \E bytes \in {Bytes("S16"), Bytes("F32")} :
          /\ buffer.len = (options.frame_size * native.channels) * bytes
          /\ last.op = "new" => bytes = Bytes(Get(last.format))

\* --------------------------------------------------------------------- C16
\* C16: in an encoder send every native encode call is handed exactly
\* frame_size samples per channel, a shorter final chunk as the scratch
\* buffer holding the chunk followed only by zero bytes (nothing left from
\* an earlier chunk, frame or call).
C16_EncodeGetsFrameSize ==
    (engine = "encoder" /\ last.op = "send") =>
       \A k \in 1..Len(last.calls) :
          /\ last.calls[k].samples = options.frame_size
          /\ ~last.calls[k].stale

\* --------------------------------------------------------------------- C17
\* C17: in an encoder send of a frame that declares a time-base tb, every
\* packet made from the frame carries tb and the same duration d, the
\* integer part of (frame_size / sample_rate) / tb, the packet of a padded
\* final chunk included; packet i (from 0) has pts = frame pts + i * d.
C17_TimeBaseDurations ==
    (engine = "encoder" /\ last.op = "send" /\ IsSome(last.frame.time_base)) =>
       LET tb == last.frame.time_base[1]
           num == options.frame_size * tb[2]
           den == last.frame.rate * tb[1]
           p == IF last.frame.pts = None THEN 0 ELSE last.frame.pts[1]
       IN \A k \in 1..Len(last.pushed) :
             LET d == last.pushed[k].duration
             IN /\ last.pushed[k].time_base = tb
                /\ d * den <= num /\ num < (d + 1) * den
                /\ last.pushed[k].pts = p + (k - 1) * d

\* A frame with a time-base made two packets, the second from a padded
\* chunk, and their duration is not the frame size.
C17_Witness ==
    /\ engine = "encoder" /\ last.op = "send" /\ last.res = "Ok"
    /\ IsSome(last.frame.time_base) /\ Len(last.pushed) = 2
    /\ last.calls[2].padded
    /\ last.pushed[2].duration # options.frame_size
    /\ last.pushed[2].pts = last.pushed[1].pts + last.pushed[1].duration

\* --------------------------------------------------------------------- C18
\* C18: constructing an encoder with a frame duration of 2.5 ms or 5 ms
\* creates the native encoder in low-delay mode and caches low-delay as the
\* application, whatever the caller requested; with one of the seven other
\* legal durations the requested mode is used unchanged.
C18_LowDelayForced ==
    (engine = "encoder" /\ last.op = "new" /\ last.res = "Ok"
        /\ last.frame_duration \in LegalDurations) =>
       LET mode == IF last.frame_duration \in {Ms(5) \div 2, Ms(5)}
                   THEN "LOWDELAY" ELSE last.application
       IN native.application = mode /\ options.application = mode

\* An encoder asked for with 5 ms and the audio mode was created low-delay.
C18_Witness ==
    /\ engine = "encoder" /\ last.op = "new" /\ last.res = "Ok"
    /\ last.frame_duration = Ms(5) /\ last.application = "AUDIO"
    /\ native.application = "LOWDELAY" /\ options.application = "LOWDELAY"

\* --------------------------------------------------------------------- C19
\* The engines under a caller that keeps calling receive.
DrainSpec ==
    /\ Init /\ [][Next]_vars
    /\ WF_vars(DecoderReceive) /\ WF_vars(EncoderReceive)

\* The engine is gone: dropped, or left behind by a panic.
EngineGone == phase \in {"dropped", "panicked"}

\* C19: the drain loop terminates and loses nothing.  A receive on a queue
\* of n > 0 outputs returns one and leaves n - 1, a receive on the empty
\* queue returns Again (so n receives without a send in between return the
\* n outputs and the next one returns Again); and under a caller that keeps
\* calling receive every output a send has enqueued is eventually
\* delivered, for as long as the engine exists.
C19_DrainDelivers ==
    /\ [][Called("receive") =>
             /\ pending # <<>> =>
                   (last'.res = "Ok" /\ Len(pending') = Len(pending) - 1
                      /\ Len(delivered') = Len(delivered) + 1)
             /\ pending = <<>> =>
                   (last'.res = "Again" /\ pending' = <<>>
                      /\ delivered' = delivered)]_vars
    /\ \A k \in 1..(MaxOutputs + 1) :
          (Len(produced) >= k) ~> (Len(delivered) >= k \/ EngineGone)

\* An encoder made two packets in one send, both were received, and the
\* receive after them found nothing.
C19_Witness ==
    /\ engine = "encoder" /\ last.op = "receive" /\ last.res = "Again"
    /\ Len(delivered) = 2 /\ pending = <<>>
    /\ delivered[1].id + 1 = delivered[2].id

\* --------------------------------------------------------------------- C20
\* A field of the configuration is absent.
FieldAbsent(config) ==
    config.rate = None \/ config.format = None \/ config.layout = None

\* The 120 ms capacity at this rate is zero, or its product does not fit 32
\* bits: the descriptor cannot be built whatever the format is.
RateUnusable(rate) == ExactCapacity(rate) = 0 \/ rate > 35791394

PacketDuration(frame) ==
    IF IsSome(frame.time_base)
    THEN (options.frame_size * Get(frame.time_base)[2])
            \div (frame.rate * Get(frame.time_base)[1])
    ELSE options.frame_size

\* The encoder's last call was a send that returned an error.
EncSendFailed(l) == l.op = "send" /\ l.res \in {"Failed", "Invalid"}

\* C21: an encoder send that fails at chunk k (the native encode errs: k
\* native calls were made; the packet is not writable: k - 1 were made)
\* returns the failure and leaves the packets of chunks 1..k-1 of that frame
\* at the end of the queue, the i-th (from 0) with pts p + i * d and duration
\* d; a send of the same frame right after the failure queues packets with
\* the same pts and durations again, behind the ones left by the failure.
C21_PartialSendStaysQueued ==
    /\ [](engine = "encoder" /\ EncSendFailed(last) =>
            LET n == Len(last.pushed)
                p == IF IsSome(last.frame.pts) THEN Get(last.frame.pts) ELSE 0
                d == PacketDuration(last.frame)
            IN /\ n = (IF last.res = "Failed" THEN Len(last.calls) - 1
                       ELSE Len(last.calls))
               /\ \A i \in 1..n : /\ last.pushed[i].pts = p + (i - 1) * d
                                  /\ last.pushed[i].duration = d
               /\ n <= Len(pending)
               /\ Ids(SubSeq(pending, Len(pending) - n + 1, Len(pending)))
                     = Ids(last.pushed))
    /\ [][(engine = "encoder" /\ EncSendFailed(last) /\ Called("send")
             /\ last'.frame = last.frame) =>
            /\ pending' = pending \o [i \in 1..Len(last'.pushed) |->
                                        [id |-> last'.pushed[i].id, kind |-> "packet"]]
            /\ \A i \in 1..Len(last.pushed) :
                  i <= Len(last'.pushed) =>
                     /\ last'.pushed[i].pts = last.pushed[i].pts
                     /\ last'.pushed[i].duration = last.pushed[i].duration
                     /\ last'.pushed[i].id # last.pushed[i].id]_vars

\* A frame of three chunks has failed at its third chunk with a native
\* error: the packets of its first two chunks are queued.
C21_Witness ==
    /\ engine = "encoder" /\ last.op = "send" /\ last.res = "Failed"
    /\ Len(last.calls) = 3 /\ Len(last.pushed) = 2
    /\ IsSome(last.frame.pts) /\ Len(pending) = 2
\* --------------------------------------------------------------------- C22
\* The step is a set_option("packet_loss", v) that got past the value's
\* conversion, and the flag is now v != 0.
LossSetByOption ==
    /\ Called("set_option") /\ last'.key = "packet_loss" /\ last'.res = "Ok"
    /\ last'.value.t \in {"bool", "int"}
    /\ packet_loss' = (AsInt(last'.value) # 0)

\* The step is a send whose recovery decode succeeded, and the flag is now
\* false.
LossClearedByRecovery ==
    /\ Called("send") /\ fec /\ packet_loss
    /\ last'.recovery = "ok" /\ ~packet_loss'

\* What C22 says of the steps that are not the first send after FEC is
\* enabled: the flag changes only by set_option("packet_loss") and by a
\* successful recovery decode; a send with FEC disabled and a send whose
\* recovery decode fails (no normal decode, nothing enqueued) leave it alone.
LossFlagSteps ==
    /\ packet_loss' # packet_loss => (LossSetByOption \/ LossClearedByRecovery)
    /\ (Called("send") /\ ~fec) =>
          (packet_loss' = packet_loss /\ last'.recovery = "skipped")
    /\ (Called("send") /\ last'.recovery \notin {"ok", "skipped"}) =>
          /\ packet_loss' = packet_loss
          /\ last'.normal = "skipped" /\ last'.pushed = <<>>
          /\ pending' = pending /\ last'.res \in Failures
    /\ (Called("send") /\ last'.recovery = "ok") => ~packet_loss'

\* C22 as stated: the flag changes only by set_option("packet_loss") and by
\* a successful recovery decode, and every send made with FEC enabled and the
\* flag set runs the recovery decode.
C22_AsStated ==
    [][DecLive =>
          /\ LossFlagSteps
          /\ (Called("send") /\ fec /\ packet_loss) => last'.recovery # "skipped"]_vars

\* C22: the decoder's loss flag changes only by set_option("packet_loss")
\* and by a successful recovery decode; a send with FEC disabled, a send
\* whose recovery decode fails (it skips the normal decode and enqueues
\* nothing), receive and flush leave it unchanged.  A send made with FEC
\* enabled and the flag set runs the recovery decode exactly when the output
\* descriptor can be built from the configuration; when it cannot, the send
\* fails before any decode and the flag stays set for the next send.
C22_LossFlagChanges ==
    [][DecLive =>
          /\ LossFlagSteps
          /\ (Called("send") /\ fec /\ packet_loss) =>
                /\ last'.recovery # "skipped" <=> IsSome(last'.cap)
                /\ ~IsSome(last'.cap) =>
                      (packet_loss' /\ last'.calls = <<>> /\ last'.res \in Failures)]_vars

\* A normal frame was produced by an earlier send; the flag then met FEC
\* enabled, and a send of an empty packet has produced a recovery frame and
\* cleared the flag.
C22_Witness ==
    /\ engine = "decoder" /\ last.op = "send" /\ last.empty
    /\ last.recovery = "ok" /\ fec /\ ~packet_loss
    /\ Len(produced) = 2
    /\ produced[1].kind = "normal" /\ produced[2].kind = "recovery"
\* --------------------------------------------------------------------- C23
\* C23: after a successful set_option("vbr", v) with v in {0, 1, 2} the
\* native encoder holds the VBR and VBR-constraint settings that
\* constructing or configuring with vbr = v issues: VBR = (v > 0) and
\* VBR-constraint = (v = 2).
C23_VbrOptionAsConstructed ==
    (engine = "encoder" /\ last.op = "set_option" /\ last.key = "vbr"
        /\ last.res = "Ok" /\ last.value.t = "int" /\ last.value.i \in {0, 1, 2}) =>
       /\ native.set["SET_VBR"] = Some(BoolInt(last.value.i > 0))
       /\ native.set["SET_VBR_CONSTRAINT"] = Some(BoolInt(last.value.i = 2))

====
